---- MODULE Spec2Model ----
(***************************************************************************)
(* The kubernetes-workload scaler of KEDA                                  *)
(* (pkg/scalers/kubernetes_workload_scaler.go): construction from trigger  *)
(* metadata, the pod count behind IsActive and GetMetrics, and the metric  *)
(* spec handed to the HPA.                                                 *)
(*                                                                         *)
(* Strings that the code parses or formats are sequences of one-character  *)
(* strings; a Go error is the sequence of the parts of its message, nil    *)
(* being the empty sequence.                                               *)
(***************************************************************************)
EXTENDS Integers, Sequences, FiniteSets, TLC

VARIABLES
    config,      \* the *ScalerConfig given to NewKubernetesWorkloadScaler
    scaler,      \* the constructed *kubernetesWorkloadScaler, or NoScaler
    newErr,      \* the error NewKubernetesWorkloadScaler returned
    last,        \* the last call made on the scaler: arguments, query, result
    prevValue,   \* value of the previous successful GetMetrics sample
    failed,      \* whether the listing query of some call so far has failed
    closed,      \* whether Close has been called
    firstSpec,   \* what the first GetMetricSpecForScaling call returned
    podListIn,   \* a pod list handed to the counting loop
    countOut,    \* what the counting loop returned for podListIn
    pc,          \* per polling cycle: where its invocation stands
    frame,       \* per polling cycle: the locals of its invocation
    ret,         \* per polling cycle: what its invocation returned
    queryLog     \* per polling cycle: the List requests it sent to kubeClient

vars == <<config, scaler, newErr, last, prevValue, failed, closed, firstSpec,
          podListIn, countOut, pc, frame, ret, queryLog>>

-----------------------------------------------------------------------------
(* Bounds of the model *)

MaxValueLen == 3
MaxClauses == 2
MaxIndex == 1
MaxPods == 2
MaxCountPods == 5
MaxConcPods == 1

SeqsUpTo(S, n) == UNION {[1..k -> S] : k \in 0..n}

-----------------------------------------------------------------------------
(* Errors *)

NoErr == <<>>

\* fmt.Errorf("<prefix>%s", err): a new error whose message is the prefix
\* followed by err's message
Errorf(prefix, err) == <<prefix>> \o err

\* errors.New / fmt.Errorf without verbs
ErrorNew(msg) == <<msg>>

-----------------------------------------------------------------------------
(* strconv *)

Digits == <<"0", "1", "2", "3", "4", "5", "6", "7", "8", "9">>

IsDigit(c) == \E d \in 1..10 : Digits[d] = c

DigitVal(c) == (CHOOSE d \in 1..10 : Digits[d] = c) - 1

ErrSyntax == ErrorNew("strconv.ParseInt: invalid syntax")

RECURSIVE ParseUint(_, _)
\* the digit loop of strconv.ParseUint, base 10: acc is the value so far
ParseUint(s, acc) ==
    IF s = <<>> THEN [val |-> acc, err |-> NoErr]
    ELSE IF ~IsDigit(Head(s)) THEN [val |-> 0, err |-> ErrSyntax]
    ELSE ParseUint(Tail(s), acc * 10 + DigitVal(Head(s)))

\* strconv.ParseInt(s, 10, 64): an optional sign, then one or more digits.
\* Strings of at most MaxValueLen + 1 characters never reach the range error.
ParseInt(s) ==
    IF s = <<>> THEN [val |-> 0, err |-> ErrSyntax]
    ELSE LET neg == Head(s) = "-"
             body == IF Head(s) \in {"+", "-"} THEN Tail(s) ELSE s
         IN  IF body = <<>> THEN [val |-> 0, err |-> ErrSyntax]
             ELSE LET u == ParseUint(body, 0)
                  IN  IF u.err # NoErr THEN u
                      ELSE [val |-> IF neg THEN 0 - u.val ELSE u.val, err |-> NoErr]

RECURSIVE FormatUint(_)
FormatUint(n) ==
    IF n < 10 THEN <<Digits[n + 1]>>
    ELSE FormatUint(n \div 10) \o <<Digits[(n % 10) + 1]>>

\* strconv.FormatInt(n, 10), also the %d verb
FormatInt(n) == IF n < 0 THEN <<"-">> \o FormatUint(0 - n) ELSE FormatUint(n)

-----------------------------------------------------------------------------
(* k8s.io/apimachinery/pkg/labels                                          *)
(* A selector string is the sequence of its comma-separated clauses; a     *)
(* clause is a requirement or a token the grammar rejects.                 *)

BadClause == [key |-> "", op |-> "?", vals |-> {}]
ReqApp == [key |-> "app", op |-> "=", vals |-> {"web"}]
ReqTier == [key |-> "tier", op |-> "notin", vals |-> {"db", "cache"}]

Requirements == {ReqApp, ReqTier}
Clauses == Requirements \cup {BadClause}

KeyRank(k) == IF k = "app" THEN 1 ELSE IF k = "tier" THEN 2 ELSE 0

ErrSelectorSyntax == ErrorNew("couldn't parse the selector string")

RECURSIVE SortByKey(_)
\* sort.Sort(ByKey(items)) at the end of labels.Parse
SortByKey(reqs) ==
    IF reqs = <<>> THEN <<>>
    ELSE LET rest == SortByKey(Tail(reqs))
             h == Head(reqs)
             lower == SelectSeq(rest, LAMBDA r : KeyRank(r.key) < KeyRank(h.key))
             upper == SelectSeq(rest, LAMBDA r : KeyRank(r.key) >= KeyRank(h.key))
         IN  lower \o <<h>> \o upper

\* labels.Parse(selector): the requirements sorted by key, or a syntax error
labels_Parse(str) ==
    IF \E i \in DOMAIN str : str[i] \notin Requirements
    THEN [sel |-> <<>>, err |-> ErrSelectorSyntax]
    ELSE [sel |-> SortByKey(str), err |-> NoErr]

RECURSIVE Selector_String(_)
\* Selector.String(): the requirements joined by ","
Selector_String(sel) ==
    IF sel = <<>> THEN <<>>
    ELSE IF Len(sel) = 1 THEN <<sel[1].key, sel[1].op>>
    ELSE <<sel[1].key, sel[1].op, ",">> \o Selector_String(Tail(sel))

\* Requirement.Matches(labels)
Requirement_Matches(r, lbls) ==
    IF r.op = "=" THEN r.key \in DOMAIN lbls /\ lbls[r.key] \in r.vals
    ELSE r.key \notin DOMAIN lbls \/ lbls[r.key] \notin r.vals

\* Selector.Matches(labels)
Selector_Matches(sel, lbls) ==
    \A i \in DOMAIN sel : Requirement_Matches(sel[i], lbls)

-----------------------------------------------------------------------------
(* Scaler construction *)

podSelectorKey == "podSelector"
valueKey == "value"

\* A Go pointer is a sequence of at most one element: Nil, or Ptr(x) to x
Nil == <<>>
Ptr(x) == <<x>>
Deref(p) == p[1]

NoScaler == Nil

\* config.TriggerMetadata[key]: the zero value "" for a missing key
Lookup(m, key) == IF key \in DOMAIN m THEN m[key] ELSE <<>>

parseWorkloadMetadata_NoIndex(cfg) ==
    LET p == labels_Parse(Lookup(cfg.TriggerMetadata, podSelectorKey))
        v == ParseInt(Lookup(cfg.TriggerMetadata, valueKey))
    IN  IF p.err # NoErr \/ Selector_String(p.sel) = <<>>
        THEN [meta |-> Nil, err |-> ErrorNew("invalid pod selector")]
        ELSE IF v.err # NoErr \/ v.val = 0
        THEN [meta |-> Nil, err |-> ErrorNew("value must be an integer greater than 0")]
        ELSE [meta |-> Ptr([podSelector |-> p.sel,
                            namespace |-> cfg.Namespace,
                            value |-> v.val,
                            scalerIndex |-> 0]),
              err |-> NoErr]

parseWorkloadMetadata(cfg) ==
    LET p == labels_Parse(Lookup(cfg.TriggerMetadata, podSelectorKey))
        v == ParseInt(Lookup(cfg.TriggerMetadata, valueKey))
    IN  IF p.err # NoErr \/ Selector_String(p.sel) = <<>>
        THEN [meta |-> Nil, err |-> ErrorNew("invalid pod selector")]
        ELSE IF v.err # NoErr \/ v.val = 0
        THEN [meta |-> Nil, err |-> ErrorNew("value must be an integer greater than 0")]
        ELSE [meta |-> Ptr([podSelector |-> p.sel,
                            namespace |-> cfg.Namespace,
                            value |-> v.val,
                            scalerIndex |-> cfg.ScalerIndex]),
              err |-> NoErr]

NewKubernetesWorkloadScaler(cfg) ==
    LET r == parseWorkloadMetadata(cfg)
    IN  IF r.err # NoErr
        THEN [scaler |-> NoScaler,
              err |-> Errorf("error parsing kubernetes workload metadata: ", r.err)]
        ELSE [scaler |-> Ptr([metadata |-> r.meta]), err |-> NoErr]

\* s.metadata of a constructed scaler
Metadata(s) == Deref(Deref(s).metadata)

-----------------------------------------------------------------------------
(* Counting pods *)

\* a corev1.Pod, of which the scaler reads Status.Phase alone
Pod(phase) == [Status |-> [Phase |-> phase]]

countIgnoresPhases == <<"Succeeded", "Failed", "Unknown">>

getCountValue_KeepUnknown(pod) ==
    IF \E i \in 1..2 : pod.Status.Phase = countIgnoresPhases[i] THEN 0 ELSE 1

getCountValue(pod) ==
    IF \E i \in DOMAIN countIgnoresPhases : pod.Status.Phase = countIgnoresPhases[i]
    THEN 0
    ELSE 1

RECURSIVE CountLoop(_, _)
\* the loop of getMetricValue over podList.Items, count being the sum so far
CountLoop(items, count) ==
    IF items = <<>> THEN count
    ELSE CountLoop(Tail(items), count + getCountValue(Head(items)))

\* the client.ListOptions getMetricValue hands to kubeClient.List
ListOptions(s) ==
    [LabelSelector |-> Metadata(s).podSelector, Namespace |-> Metadata(s).namespace]

\* getMetricValue, resp being what kubeClient.List answered: the pod list it
\* filled in, or its error
getMetricValue(s, resp) ==
    IF resp.err # NoErr THEN [count |-> 0, err |-> resp.err]
    ELSE [count |-> CountLoop(resp.Items, 0), err |-> NoErr]

-----------------------------------------------------------------------------
(* The scaler's operations *)

IsActive_NonNegative(s, resp) ==
    LET r == getMetricValue(s, resp)
    IN  IF r.err # NoErr THEN [active |-> FALSE, err |-> r.err]
        ELSE [active |-> r.count >= 0, err |-> NoErr]

IsActive_Wrapping(s, resp) ==
    LET r == getMetricValue(s, resp)
    IN  IF r.err # NoErr
        THEN [active |-> FALSE, err |-> Errorf("error inspecting kubernetes workload: ", r.err)]
        ELSE [active |-> r.count > 0, err |-> NoErr]

IsActive(s, resp) ==
    LET r == getMetricValue(s, resp)
    IN  IF r.err # NoErr THEN [active |-> FALSE, err |-> r.err]
        ELSE [active |-> r.count > 0, err |-> NoErr]

Close(s) == NoErr

\* resource.NewQuantity(value, resource.DecimalSI)
NewQuantity(value) == [value |-> value, format |-> "DecimalSI"]

WorkloadPrefix == <<"w", "o", "r", "k", "l", "o", "a", "d", "-">>

LegalNameChars ==
    {"a", "b", "d", "e", "k", "l", "o", "r", "v", "w", "-",
     "0", "1", "2", "3", "4", "5", "6", "7", "8", "9"}

\* kedautil.NormalizeString: drops the characters a metric name cannot hold
NormalizeString(str) == SelectSeq(str, LAMBDA c : c \in LegalNameChars)

\* fmt.Sprintf("workload-%s", namespace) lays the namespace after WorkloadPrefix.
\* GenerateMetricNameWithIndex: "<scalerIndex>-<metricName>"
GenerateMetricNameWithIndex(scalerIndex, metricName) ==
    FormatInt(scalerIndex) \o <<"-">> \o metricName

kubernetesWorkloadMetricType == "External"

GetMetricSpecForScaling_LiveTarget(s) ==
    LET externalMetric ==
            [Metric |-> [Name |-> GenerateMetricNameWithIndex(Metadata(s).scalerIndex,
                            NormalizeString(WorkloadPrefix \o Metadata(s).namespace))],
             Target |-> [Type |-> "AverageValue",
                         AverageValue |-> NewQuantity(
                             IF prevValue > 0 THEN prevValue ELSE Metadata(s).value)]]
    IN  <<[External |-> externalMetric, Type |-> kubernetesWorkloadMetricType]>>

GetMetricSpecForScaling(s) ==
    LET targetMetricValue == NewQuantity(Metadata(s).value)
        externalMetric ==
            [Metric |-> [Name |-> GenerateMetricNameWithIndex(Metadata(s).scalerIndex,
                            NormalizeString(WorkloadPrefix \o Metadata(s).namespace))],
             Target |-> [Type |-> "AverageValue", AverageValue |-> targetMetricValue]]
    IN  <<[External |-> externalMetric, Type |-> kubernetesWorkloadMetricType]>>

\* metav1.Now(): the reading of the wall clock, which no caller compares
Now == "metav1.Now()"

GetMetrics_Cached(s, metricName, metricSelector, resp) ==
    LET r == getMetricValue(s, resp)
    IN  IF r.err # NoErr
        THEN [metrics |-> <<>>,
              err |-> Errorf("error inspecting kubernetes workload: ", r.err)]
        ELSE IF last.op = "GetMetrics" /\ last.result.err = NoErr
        THEN [metrics |-> <<[MetricName |-> metricName,
                             Value |-> last.result.metrics[1].Value,
                             Timestamp |-> Now]>>,
              err |-> NoErr]
        ELSE [metrics |-> <<[MetricName |-> metricName,
                             Value |-> NewQuantity(r.count),
                             Timestamp |-> Now]>>,
              err |-> NoErr]

GetMetrics_Filtering(s, metricName, metricSelector, resp) ==
    LET r == getMetricValue(s, resp)
    IN  IF r.err # NoErr
        THEN [metrics |-> <<>>,
              err |-> Errorf("error inspecting kubernetes workload: ", r.err)]
        ELSE [metrics |-> <<[MetricName |-> metricName,
                             Value |-> NewQuantity(IF metricSelector = <<>> THEN r.count ELSE 0),
                             Timestamp |-> Now]>>,
              err |-> NoErr]

GetMetrics(s, metricName, metricSelector, resp) ==
    LET r == getMetricValue(s, resp)
    IN  IF r.err # NoErr
        THEN [metrics |-> <<>>,
              err |-> Errorf("error inspecting kubernetes workload: ", r.err)]
        ELSE [metrics |-> <<[MetricName |-> metricName,
                             Value |-> NewQuantity(r.count),
                             Timestamp |-> Now]>>,
              err |-> NoErr]

-----------------------------------------------------------------------------
(* Inputs of construction *)

ValueChars == {"-", "+", "0", "1", "x"}
ValueStrings == SeqsUpTo(ValueChars, MaxValueLen)
SelectorStrings == SeqsUpTo(Clauses, MaxClauses)
Namespaces == {<<"d", "e", "v">>, <<"a", ".", "b">>}
ScalerIndexes == 0..MaxIndex

\* a map[string]string holding the keys whose argument is not Nil
TriggerMetadataOf(sel, val) ==
    [k \in (IF sel = Nil THEN {} ELSE {podSelectorKey})
            \cup (IF val = Nil THEN {} ELSE {valueKey})
        |-> IF k = podSelectorKey THEN Deref(sel) ELSE Deref(val)]

Optional(S) == {Nil} \cup {Ptr(x) : x \in S}

Configs ==
    {[Namespace |-> ns, TriggerMetadata |-> TriggerMetadataOf(sel, val), ScalerIndex |-> i] :
        ns \in Namespaces, sel \in Optional(SelectorStrings),
        val \in Optional(ValueStrings), i \in ScalerIndexes}

-----------------------------------------------------------------------------
(* Values of the variables a specification does not use *)

Procs == {"cycle1", "cycle2"}

NoCall == [op |-> "none"]

RunIdle ==
    /\ last = NoCall
    /\ prevValue = -1
    /\ failed = FALSE
    /\ closed = FALSE
    /\ firstSpec = Nil

CountIdle ==
    /\ podListIn = <<>>
    /\ countOut = -1

ConcIdle ==
    /\ pc = [p \in Procs |-> "idle"]
    /\ frame = [p \in Procs |-> Nil]
    /\ ret = [p \in Procs |-> Nil]
    /\ queryLog = [p \in Procs |-> <<>>]

parseVars == <<config, scaler, newErr>>
runVars == <<last, prevValue, failed, closed, firstSpec>>
countVars == <<podListIn, countOut>>
concVars == <<pc, frame, ret, queryLog>>

-----------------------------------------------------------------------------
(* Construction: the host builds a scaler from a trigger configuration *)

InitParse ==
    /\ config \in Configs
    /\ scaler = NoScaler
    /\ newErr = NoErr
    /\ RunIdle /\ CountIdle /\ ConcIdle

New ==
    /\ scaler = NoScaler /\ newErr = NoErr
    /\ LET r == NewKubernetesWorkloadScaler(config)
       IN  /\ scaler' = r.scaler
           /\ newErr' = r.err
    /\ UNCHANGED <<config, runVars, countVars, concVars>>

NextParse == New

SpecParse == InitParse /\ [][NextParse]_vars

-----------------------------------------------------------------------------
(* The host polls one constructed scaler: one call after another *)

RunPhases == {"", "Running", "Failed"}
PodLists == {[i \in DOMAIN l |-> Pod(l[i])] : l \in SeqsUpTo(RunPhases, MaxPods)}

ListErrors == {ErrorNew("context deadline exceeded"), ErrorNew("pods is forbidden")}

\* what kubeClient.List can answer: a pod list, or an error
ListResponses ==
    {[Items |-> l, err |-> NoErr] : l \in PodLists}
        \cup {[Items |-> <<>>, err |-> e] : e \in ListErrors}

RunConfigs ==
    {[Namespace |-> ns,
      TriggerMetadata |-> TriggerMetadataOf(Ptr(<<ReqTier, ReqApp>>), Ptr(val)),
      ScalerIndex |-> MaxIndex] :
        <<ns, val>> \in {<<<<"d", "e", "v">>, <<"1", "0">>>>, <<<<"a", ".", "b">>, <<"-", "1">>>>}}

RequestedNames ==
    {GenerateMetricNameWithIndex(MaxIndex, WorkloadPrefix \o <<"d", "e", "v">>),
     <<"o", "t", "h", "e", "r">>}
MetricSelectors == {<<>>, <<ReqApp>>}

Init ==
    /\ config \in RunConfigs
    /\ scaler = NewKubernetesWorkloadScaler(config).scaler
    /\ newErr = NewKubernetesWorkloadScaler(config).err
    /\ newErr = NoErr
    /\ RunIdle /\ CountIdle /\ ConcIdle

LastSucceededGetMetrics == last.op = "GetMetrics" /\ last.result.err = NoErr

\* bookkeeping common to the calls: the sample before this call, the failures so far
Book(resp) ==
    /\ prevValue' = IF LastSucceededGetMetrics
                    THEN last.result.metrics[1].Value.value
                    ELSE prevValue
    /\ failed' = (failed \/ resp.err # NoErr)

NoResponse == [Items |-> <<>>, err |-> NoErr]

DoIsActive_Resetting ==
    /\ scaler # NoScaler
    /\ \E resp \in ListResponses :
        /\ last' = [op |-> "IsActive", query |-> Ptr(ListOptions(scaler)),
                    resp |-> resp, result |-> IsActive(scaler, resp)]
        /\ scaler' = IF resp.err # NoErr
                     THEN Ptr([metadata |-> Ptr([Metadata(scaler) EXCEPT !.value = 0])])
                     ELSE scaler
        /\ Book(resp)
    /\ UNCHANGED <<config, newErr, closed, firstSpec, countVars, concVars>>

DoIsActive ==
    /\ scaler # NoScaler
    /\ \E resp \in ListResponses :
        /\ last' = [op |-> "IsActive", query |-> Ptr(ListOptions(scaler)),
                    resp |-> resp, result |-> IsActive(scaler, resp)]
        /\ Book(resp)
    /\ UNCHANGED <<config, scaler, newErr, closed, firstSpec, countVars, concVars>>

DoGetMetrics ==
    /\ scaler # NoScaler
    /\ \E resp \in ListResponses, metricName \in RequestedNames,
          metricSelector \in MetricSelectors :
        /\ last' = [op |-> "GetMetrics", query |-> Ptr(ListOptions(scaler)),
                    resp |-> resp, metricName |-> metricName,
                    metricSelector |-> metricSelector,
                    result |-> GetMetrics(scaler, metricName, metricSelector, resp)]
        /\ Book(resp)
    /\ UNCHANGED <<config, scaler, newErr, closed, firstSpec, countVars, concVars>>

DoGetSpec ==
    /\ scaler # NoScaler
    /\ LET spec == GetMetricSpecForScaling(scaler)
       IN  /\ last' = [op |-> "GetSpec", query |-> Nil, resp |-> NoResponse, result |-> spec]
           /\ firstSpec' = IF firstSpec = Nil THEN Ptr(spec) ELSE firstSpec
    /\ Book(NoResponse)
    /\ UNCHANGED <<config, scaler, newErr, closed, countVars, concVars>>

DoClose ==
    /\ scaler # NoScaler
    /\ last' = [op |-> "Close", query |-> Nil, resp |-> NoResponse,
                result |-> [err |-> Close(scaler)]]
    /\ closed' = TRUE
    /\ Book(NoResponse)
    /\ UNCHANGED <<config, scaler, newErr, firstSpec, countVars, concVars>>

Next == DoIsActive \/ DoGetMetrics \/ DoGetSpec \/ DoClose

Spec == Init /\ [][Next]_vars

-----------------------------------------------------------------------------
(* The counting loop applied to one pod list *)

AllPhases == {"", "Pending", "Running", "Succeeded", "Failed", "Unknown", "Evicted"}
CountPodLists ==
    {[i \in DOMAIN l |-> Pod(l[i])] : l \in SeqsUpTo(AllPhases, MaxCountPods)}

InitCount ==
    /\ config \in RunConfigs
    /\ config.Namespace = <<"d", "e", "v">>
    /\ scaler = NewKubernetesWorkloadScaler(config).scaler
    /\ newErr = NoErr
    /\ podListIn \in CountPodLists
    /\ countOut = -1
    /\ RunIdle /\ ConcIdle

CountPods ==
    /\ countOut = -1
    /\ LET r == getMetricValue(scaler, [Items |-> podListIn, err |-> NoErr])
       IN  /\ r.err = NoErr
           /\ countOut' = r.count
    /\ UNCHANGED <<parseVars, runVars, podListIn, concVars>>

NextCount == CountPods

SpecCount == InitCount /\ [][NextCount]_vars

-----------------------------------------------------------------------------
(* Two polling cycles of the host call one scaler at the same time.  An     *)
(* invocation is entered, blocks in kubeClient.List, then counts and        *)
(* returns; the cycles interleave between these steps.                      *)

ConcPodLists == {[i \in DOMAIN l |-> Pod(l[i])] : l \in SeqsUpTo(RunPhases, MaxConcPods)}

ConcResponses ==
    {[Items |-> l, err |-> NoErr] : l \in ConcPodLists}
        \cup {[Items |-> <<>>, err |-> e] : e \in ListErrors}

InitConc ==
    /\ config \in RunConfigs
    /\ scaler = NewKubernetesWorkloadScaler(config).scaler
    /\ newErr = NoErr
    /\ RunIdle /\ CountIdle /\ ConcIdle

\* the host enters IsActive on cycle p
InvokeIsActive(p) ==
    /\ pc[p] = "idle"
    /\ frame' = [frame EXCEPT ![p] = Ptr([op |-> "IsActive", metricName |-> <<>>,
                                          metricSelector |-> <<>>,
                                          podList |-> NoResponse])]
    /\ pc' = [pc EXCEPT ![p] = "list"]
    /\ UNCHANGED <<parseVars, runVars, countVars, ret, queryLog>>

\* the host enters GetMetrics on cycle p
InvokeGetMetrics(p) ==
    /\ pc[p] = "idle"
    /\ \E metricName \in RequestedNames, metricSelector \in MetricSelectors :
        frame' = [frame EXCEPT ![p] = Ptr([op |-> "GetMetrics", metricName |-> metricName,
                                           metricSelector |-> metricSelector,
                                           podList |-> NoResponse])]
    /\ pc' = [pc EXCEPT ![p] = "list"]
    /\ UNCHANGED <<parseVars, runVars, countVars, ret, queryLog>>

List_SharedPodList(p) ==
    /\ pc[p] = "list"
    /\ \E resp \in ConcResponses :
        /\ queryLog' = [queryLog EXCEPT ![p] =
                            Append(@, [opts |-> ListOptions(scaler), resp |-> resp])]
        /\ frame' = [q \in Procs |->
                        IF frame[q] = Nil THEN Nil
                        ELSE Ptr([Deref(frame[q]) EXCEPT !.podList = resp])]
    /\ pc' = [pc EXCEPT ![p] = "count"]
    /\ UNCHANGED <<parseVars, runVars, countVars, ret>>

\* kubeClient.List of getMetricValue on cycle p: one request, answered into
\* the invocation's own podList
List(p) ==
    /\ pc[p] = "list"
    /\ \E resp \in ConcResponses :
        /\ queryLog' = [queryLog EXCEPT ![p] =
                            Append(@, [opts |-> ListOptions(scaler), resp |-> resp])]
        /\ frame' = [frame EXCEPT ![p] = Ptr([Deref(@) EXCEPT !.podList = resp])]
    /\ pc' = [pc EXCEPT ![p] = "count"]
    /\ UNCHANGED <<parseVars, runVars, countVars, ret>>

\* the rest of getMetricValue and of its caller on cycle p
Return(p) ==
    /\ pc[p] = "count"
    /\ LET f == Deref(frame[p])
       IN  ret' = [ret EXCEPT ![p] =
                      Ptr(IF f.op = "IsActive"
                          THEN IsActive(scaler, f.podList)
                          ELSE GetMetrics(scaler, f.metricName, f.metricSelector, f.podList))]
    /\ pc' = [pc EXCEPT ![p] = "returned"]
    /\ UNCHANGED <<parseVars, runVars, countVars, frame, queryLog>>

\* the host takes the result of cycle p; the cycle is free for its next poll
Finish(p) ==
    /\ pc[p] = "returned"
    /\ pc' = [pc EXCEPT ![p] = "idle"]
    /\ frame' = [frame EXCEPT ![p] = Nil]
    /\ ret' = [ret EXCEPT ![p] = Nil]
    /\ queryLog' = [queryLog EXCEPT ![p] = <<>>]
    /\ UNCHANGED <<parseVars, runVars, countVars>>

NextConc ==
    \E p \in Procs :
        InvokeIsActive(p) \/ InvokeGetMetrics(p) \/ List(p) \/ Return(p) \/ Finish(p)

SpecConc == InitConc /\ [][NextConc]_vars

-----------------------------------------------------------------------------
(* What the claims speak of, stated apart from the code's own operators *)

Constructed == scaler # NoScaler
Done == scaler # NoScaler \/ newErr # NoErr

TerminalPhases == {"Succeeded", "Failed", "Unknown"}

\* the number of pods of a list whose phase is not terminal
ActiveCount(items) ==
    Cardinality({i \in DOMAIN items : items[i].Status.Phase \notin TerminalPhases})

RECURSIVE Pow10(_)
Pow10(n) == IF n = 0 THEN 1 ELSE 10 * Pow10(n - 1)

\* whether str is one or more decimal digits
AllDigits(str) == str # <<>> /\ \A i \in DOMAIN str : IsDigit(str[i])

RECURSIVE DecimalSum(_, _)
\* the number a digit string writes: the sum of digit * 10^position
DecimalSum(str, i) ==
    IF i > Len(str) THEN 0
    ELSE DigitVal(str[i]) * Pow10(Len(str) - i) + DecimalSum(str, i + 1)

\* whether str writes a base-10 integer: an optional sign, then digits
IsInteger(str) ==
    /\ str # <<>>
    /\ AllDigits(IF Head(str) \in {"+", "-"} THEN Tail(str) ELSE str)

IntegerOf(str) ==
    IF Head(str) = "-" THEN 0 - DecimalSum(Tail(str), 1)
    ELSE IF Head(str) = "+" THEN DecimalSum(Tail(str), 1)
    ELSE DecimalSum(str, 1)

GivenSelector == Lookup(config.TriggerMetadata, podSelectorKey)
GivenValue == Lookup(config.TriggerMetadata, valueKey)

\* the selector string is non-empty and every clause of it is well formed
ValidSelector(str) == str # <<>> /\ \A i \in DOMAIN str : str[i] \in Requirements

LabelKeys == {"app", "tier"}
LabelValues == {"web", "db", "api"}
LabelSets == UNION {[K -> LabelValues] : K \in SUBSET LabelKeys}

\* C1: construction fails, with no scaler, whenever podSelector is missing or
\* empty or value is missing, not a base-10 integer, or an integer that is not
\* greater than zero; every constructed scaler has value > 0 and a non-empty
\* selector.
C1_InvalidConfigRejected ==
    Done =>
        /\ (GivenSelector = <<>> \/ ~IsInteger(GivenValue) \/ IntegerOf(GivenValue) <= 0)
              => (newErr # NoErr /\ scaler = NoScaler)
        /\ Constructed =>
              (Metadata(scaler).value > 0 /\ Metadata(scaler).podSelector # <<>>)

\* C8: a valid non-empty selector string S and the decimal writing of an
\* integer V > 0 construct a scaler whose value is V, whose selector matches
\* exactly the label sets S matches, and whose namespace and scalerIndex are
\* those of the configuration.
C8_ValidConfigParsed ==
    (Done /\ ValidSelector(GivenSelector) /\ AllDigits(GivenValue)
          /\ DecimalSum(GivenValue, 1) > 0 /\ Head(GivenValue) # "0") =>
        /\ newErr = NoErr
        /\ Constructed
        /\ Metadata(scaler).value = DecimalSum(GivenValue, 1)
        /\ FormatInt(Metadata(scaler).value) = GivenValue
        /\ \A lbls \in LabelSets :
              Selector_Matches(Metadata(scaler).podSelector, lbls)
                  <=> \A i \in DOMAIN GivenSelector :
                          Requirement_Matches(GivenSelector[i], lbls)
        /\ Metadata(scaler).namespace = config.Namespace
        /\ Metadata(scaler).scalerIndex = config.ScalerIndex

C8_Witness ==
    /\ Constructed
    /\ GivenSelector = <<ReqTier, ReqApp>>
    /\ GivenValue = <<"1", "0", "1">>
    /\ config.ScalerIndex = MaxIndex
    /\ Metadata(scaler).value = 101

FailedListing == last.op \in {"IsActive", "GetMetrics"} /\ last.resp.err # NoErr
SucceededListing == last.op \in {"IsActive", "GetMetrics"} /\ last.resp.err = NoErr

\* C2: when the listing query fails with error E, IsActive and GetMetrics
\* both return exactly E.
C2_ErrorReturnedUnchanged ==
    FailedListing => last.result.err = last.resp.err

\* C2, amended: when the listing query fails with error E, IsActive returns
\* false and exactly E; GetMetrics returns no sample and a new error whose
\* message is "error inspecting kubernetes workload: " followed by E's.
C2_ErrorPropagated ==
    FailedListing =>
        /\ last.op = "IsActive" =>
              (last.result.err = last.resp.err /\ last.result.active = FALSE)
        /\ last.op = "GetMetrics" =>
              /\ last.result.err = <<"error inspecting kubernetes workload: ">> \o last.resp.err
              /\ last.result.metrics = <<>>

C2_Witness ==
    /\ last.op = "GetMetrics"
    /\ last.resp.err = ErrorNew("context deadline exceeded")
    /\ last.result.err # last.resp.err

\* C4: the sample of every successful GetMetrics call carries the active
\* count of the pod list that call's own listing query returned, whatever
\* calls came before.
C4_SampleIsFreshCount ==
    LastSucceededGetMetrics =>
        /\ Len(last.result.metrics) = 1
        /\ last.result.metrics[1].Value.value = ActiveCount(last.resp.Items)

C4_Witness ==
    /\ LastSucceededGetMetrics
    /\ prevValue >= 0
    /\ prevValue # last.result.metrics[1].Value.value
    /\ closed
    /\ firstSpec # Nil

\* C5: failed calls leave the scaler as constructed, and a call whose listing
\* query succeeds after failures queries and answers as if none had failed.
C5_FailureLeavesScaler ==
    /\ scaler = NewKubernetesWorkloadScaler(config).scaler
    /\ (failed /\ SucceededListing) =>
          /\ last.query = Ptr(ListOptions(NewKubernetesWorkloadScaler(config).scaler))
          /\ last.result.err = NoErr
          /\ last.op = "IsActive" =>
                (last.result.active <=> ActiveCount(last.resp.Items) > 0)
          /\ last.op = "GetMetrics" =>
                last.result.metrics[1].Value.value = ActiveCount(last.resp.Items)

C5_Witness ==
    /\ failed
    /\ last.op = "IsActive"
    /\ last.resp.err = NoErr
    /\ last.result.active

\* C6: for a successful listing, IsActive returns true exactly when the
\* active count of the list is greater than 0, and no error.
C6_ActiveIffPositiveCount ==
    (last.op = "IsActive" /\ last.resp.err = NoErr) =>
        /\ last.result.err = NoErr
        /\ last.result.active <=> ActiveCount(last.resp.Items) > 0

C6_Witness ==
    /\ last.op = "IsActive"
    /\ last.resp.err = NoErr
    /\ last.resp.Items # <<>>
    /\ ~last.result.active

\* C7: GetMetricSpecForScaling sends no listing query and returns, on every
\* call, the spec its first call returned: one External metric named from
\* scalerIndex and namespace alone, with an AverageValue target of value.
C7_SpecDeterministic ==
    last.op = "GetSpec" =>
        /\ last.query = Nil
        /\ Ptr(last.result) = firstSpec
        /\ Len(last.result) = 1
        /\ last.result[1].Type = "External"
        /\ last.result[1].External.Metric.Name =
              GenerateMetricNameWithIndex(config.ScalerIndex,
                  NormalizeString(WorkloadPrefix \o config.Namespace))
        /\ last.result[1].External.Target.Type = "AverageValue"
        /\ last.result[1].External.Target.AverageValue = NewQuantity(Metadata(scaler).value)

C7_Witness ==
    /\ last.op = "GetSpec"
    /\ failed
    /\ closed
    /\ prevValue > 0

\* C9: a successful GetMetrics sample carries the requested metric name, and
\* its name and value are what any other metricSelector argument would have
\* given for the same requested name and the same listing.
C9_NameKeptSelectorIgnored ==
    LastSucceededGetMetrics =>
        /\ last.result.metrics[1].MetricName = last.metricName
        /\ \A sel \in MetricSelectors :
              LET other == GetMetrics(scaler, last.metricName, sel, last.resp)
              IN  /\ other.err = NoErr
                  /\ other.metrics[1].MetricName = last.result.metrics[1].MetricName
                  /\ other.metrics[1].Value = last.result.metrics[1].Value

C9_Witness ==
    /\ LastSucceededGetMetrics
    /\ last.metricSelector # <<>>
    /\ last.metricName # GetMetricSpecForScaling(scaler)[1].External.Metric.Name
    /\ last.result.metrics[1].Value.value > 0

\* C3: the count of a successfully listed pod list is the number of its pods
\* whose phase is not Succeeded, Failed or Unknown; Running, Pending,
\* Succeeded, Failed, Unknown gives 2.
C3_CountIsNonTerminalPods ==
    countOut # -1 =>
        /\ countOut = ActiveCount(podListIn)
        /\ podListIn = <<Pod("Running"), Pod("Pending"), Pod("Succeeded"),
                         Pod("Failed"), Pod("Unknown")>> => countOut = 2

C3_Witness ==
    /\ countOut = 3
    /\ podListIn = <<Pod("Unknown"), Pod(""), Pod("Evicted"), Pod("Failed"), Pod("Pending")>>

\* what an invocation that sent request q must return
AnswerFor(f, q, r) ==
    IF q.resp.err # NoErr
    THEN r.err # NoErr /\ r.err[Len(r.err)] = q.resp.err[Len(q.resp.err)]
    ELSE /\ r.err = NoErr
         /\ f.op = "IsActive" => (r.active <=> ActiveCount(q.resp.Items) > 0)
         /\ f.op = "GetMetrics" =>
               /\ r.metrics[1].Value.value = ActiveCount(q.resp.Items)
               /\ r.metrics[1].MetricName = f.metricName

\* C10: under every interleaving of concurrent IsActive and GetMetrics
\* invocations, each sends at most one List request, scoped to the
\* descriptor's namespace and selector, returns what the answer to its own
\* request determines, and leaves the scaler as constructed.
C10_InvocationsIsolated ==
    /\ scaler = NewKubernetesWorkloadScaler(config).scaler
    /\ \A p \in Procs :
          /\ Len(queryLog[p]) <= 1
          /\ \A i \in DOMAIN queryLog[p] :
                queryLog[p][i].opts =
                    [LabelSelector |-> SortByKey(GivenSelector), Namespace |-> config.Namespace]
          /\ pc[p] = "returned" =>
                /\ Len(queryLog[p]) = 1
                /\ AnswerFor(Deref(frame[p]), queryLog[p][1], Deref(ret[p]))

C10_Witness ==
    /\ \A p \in Procs : pc[p] = "returned"
    /\ \E p, q \in Procs :
          /\ Deref(frame[p]).op = "IsActive" /\ Deref(ret[p]).active
          /\ Deref(frame[q]).op = "GetMetrics" /\ Deref(ret[q]).err # NoErr

====
